---- MODULE Spec2Model ----
(***************************************************************************)
(* A model of the CHIP-8 interpreter of src/src/chip8.rs and its decoder   *)
(* src/src/chip8/instruction.rs.  The state is the Chip8Interpreter struct *)
(* plus the position of the process (created, running its select loop,     *)
(* exited, panicked); one action per step of run_rom.                      *)
(***************************************************************************)
EXTENDS Integers, Sequences, FiniteSets, TLC

VARIABLES
    registers_v,      \* [u8; 16], indexed 0..15
    register_i,       \* u16
    delay_timer,      \* u16
    sound_timer,      \* u16
    register_pc,      \* u16
    mem,              \* [u8; 4096]: the bytes that were stored, by address
                      \* 0..4095; a byte never stored is the 0 of [0; 4096]
    frame_buffer,     \* [[u32; 64]; 32]: the set of << row, column >> of the
                      \* pixels that are 1; every other pixel is 0
    stack,            \* Vec<u16>
    old_shift,        \* bool
    rom,              \* the bytes of the file run_rom is given
    overflow_checks,  \* whether the build panics on integer overflow
    status,           \* where the process is: see Statuses
    event,            \* the arm of the select! loop that ran last
    cycles            \* calls of exec() so far

vars == << registers_v, register_i, delay_timer, sound_timer, register_pc, mem,
           frame_buffer, stack, old_shift, rom, overflow_checks, status, event,
           cycles >>

\* The fields of the Chip8Interpreter struct (the window left out).
machine == << registers_v, register_i, delay_timer, sound_timer, register_pc,
              mem, frame_buffer, stack, old_shift >>

(***************************************************************************)
(* Program constants                                                       *)
(***************************************************************************)
MEMORY_SIZE == 4096
FIRST_LOADABLE_ADDR == 512
FRAME_BUFFER_WIDTH == 64
FRAME_BUFFER_HEIGHT == 32

FONTS_DATA ==
    << \hF0, \h90, \h90, \h90, \hF0,
       \h20, \h60, \h20, \h20, \h70,
       \hF0, \h10, \hF0, \h80, \hF0,
       \hF0, \h10, \hF0, \h10, \hF0,
       \h90, \h90, \hF0, \h10, \h10,
       \hF0, \h80, \hF0, \h10, \hF0,
       \hF0, \h80, \hF0, \h90, \hF0,
       \hF0, \h10, \h20, \h40, \h40,
       \hF0, \h90, \hF0, \h90, \hF0,
       \hF0, \h90, \hF0, \h10, \hF0,
       \hF0, \h90, \hF0, \h90, \h90,
       \hE0, \h90, \hE0, \h90, \hE0,
       \hF0, \h80, \hF0, \h80, \hF0,
       \hE0, \h90, \h90, \h90, \hE0,
       \hF0, \h80, \hF0, \h80, \hF0,
       \hF0, \h80, \hF0, \h80, \h80 >>

(***************************************************************************)
(* Bounds of the model                                                     *)
(***************************************************************************)
\* exec() is called at most this many times in a run.
MaxCycles == 4
\* A test harness presets each timer to at most this value.
MaxTimer == 3

(***************************************************************************)
(* Bit operations on machine integers                                      *)
(***************************************************************************)
RECURSIVE bitand(_, _)
bitand(a, b) ==
    IF a = 0 \/ b = 0 THEN 0
    ELSE (a % 2) * (b % 2) + 2 * bitand(a \div 2, b \div 2)

RECURSIVE bitor(_, _)
bitor(a, b) ==
    IF a = 0 THEN b
    ELSE IF b = 0 THEN a
    ELSE (IF a % 2 = 1 \/ b % 2 = 1 THEN 1 ELSE 0) + 2 * bitor(a \div 2, b \div 2)

RECURSIVE bitxor(_, _)
bitxor(a, b) ==
    IF a = 0 THEN b
    ELSE IF b = 0 THEN a
    ELSE ((a + b) % 2) + 2 * bitxor(a \div 2, b \div 2)

(***************************************************************************)
(* instruction.rs: Opcode and Instruction                                  *)
(***************************************************************************)
take_param_n(opcode) == bitand(opcode, \h000F)
take_param_nnn(opcode) == bitand(opcode, \h0FFF)
take_param_kk(opcode) == bitand(opcode, \h00FF)
take_param_x(opcode) == bitand(opcode, \h0F00) \div 256
take_param_y(opcode) == bitand(opcode, \h00F0) \div 16

Opcode_new(raw) ==
    [ raw |-> raw,
      x   |-> take_param_x(raw),
      y   |-> take_param_y(raw),
      n   |-> take_param_n(raw),
      nnn |-> take_param_nnn(raw),
      kk  |-> take_param_kk(raw) ]

\* The variant from_raw_opcode returns, "Err" for Err(..).  The tests run in
\* the order of the source: the first that matches returns.
from_raw_opcode(raw_opcode) ==
    LET hi == raw_opcode \div 4096
        last_nible == bitand(raw_opcode, \hF)
    IN  IF raw_opcode = \h00 THEN "End"
        ELSE IF raw_opcode = \h00E0 THEN "I00E0"
        ELSE IF raw_opcode = \h00EE THEN "I00EE"
        ELSE IF hi = \h1 THEN "I1NNN"
        ELSE IF hi = \h2 THEN "I2NNN"
        ELSE IF hi = \h3 THEN "I3XNN"
        ELSE IF hi = \h4 THEN "I4XNN"
        ELSE IF hi = \h5 THEN "I5XY0"
        ELSE IF hi = \h6 THEN "I6XNN"
        ELSE IF hi = \h7 THEN "I7XNN"
        ELSE IF hi = \h8 /\ last_nible = 0 THEN "I8XY0"
        ELSE IF hi = \h8 /\ last_nible = 1 THEN "I8XY1"
        ELSE IF hi = \h8 /\ last_nible = 2 THEN "I8XY2"
        ELSE IF hi = \h8 /\ last_nible = 3 THEN "I8XY3"
        ELSE IF hi = \h8 /\ last_nible = 4 THEN "I8XY4"
        ELSE IF hi = \h8 /\ last_nible = 5 THEN "I8XY5"
        ELSE IF hi = \h8 /\ last_nible = 6 THEN "I8XY6"
        ELSE IF hi = \h8 /\ last_nible = 7 THEN "I8XY7"
        ELSE IF hi = \h8 /\ last_nible = \hE THEN "I8XYE"
        ELSE IF hi = \hA THEN "IANNN"
        ELSE IF hi = \h9 THEN "I9XY0"
        ELSE IF hi = \hD THEN "IDXYN"
        ELSE "Err"

(***************************************************************************)
(* chip8.rs: the helpers below the impl block                              *)
(***************************************************************************)
\* m[a] of a Mem, for an address a below MEMORY_SIZE.
mem_at(m, a) == IF a \in DOMAIN m THEN m[a] ELSE 0

\* pixels[y][x] of a frame buffer.
pixel_at(pixels, y, x) == IF << y, x >> \in pixels THEN 1 ELSE 0

\* pixels[y][x] |= 1 in place of the assignment: a lit pixel stays lit.
pixel_set_or(pixels, y, x, val) == pixels \cup { << y, x >> }

\* The frame buffer after pixels[y][x] = val, for val 0 or 1.
pixel_set(pixels, y, x, val) ==
    IF val = 0 THEN pixels \ { << y, x >> } ELSE pixels \cup { << y, x >> }

\* The process has ended by a panic.
PanicStatuses ==
    { "panic: rom too long", "panic: cannot decode", "panic: unwrap on None",
      "panic: arithmetic overflow", "panic: index out of bounds",
      "panic: not implemented" }

\* shift_left_carry(&mut val): << carry, the new val >>.
shift_left_carry(val) == << val \div 128, (val * 2) % 256 >>

\* shift_right_carry(&mut val): << carry, the new val >>.
shift_right_carry(val) == << bitand(val, \h1), val \div 2 >>

\* add_carry keeping the sum in a u8: the 9th bit is lost.
add_carry_u8_sum(a, b) ==
    LET sum_8 == (a + b) % 256
    IN  << sum_8 \div 256, bitand(sum_8, \hFF) >>

add_carry(a, b) ==
    LET sum_16 == a + b
    IN  << sum_16 \div 256, bitand(sum_16, \hFF) >>

\* subtract_carry computing 'b - a' in its borrow branch, without the 256.
subtract_carry_magnitude(a, b) ==
    IF a >= b THEN << 0, a - b >>
    ELSE << 1, (b - a) % 256 >>

subtract_carry(a, b) ==
    IF a >= b THEN << 0, a - b >>
    ELSE << 1, (256 + a - b) % 256 >>

\* display_bits without the '& 31' and '& 63': a pixel past the bottom or the
\* right edge is dropped instead of wrapped.
RECURSIVE display_bits_clipped(_, _, _, _, _)
display_bits_clipped(acc, x_cor, y_cor, row, x) ==
    IF x >= 8 THEN acc
    ELSE
        LET to_y == y_cor + row
            to_x == x_cor + x
            old == pixel_at(acc.pixels, to_y, to_x)
            new == bitxor(old, 1)
            drawn ==
                IF acc.sprite \div 128 > 0 /\ to_y < FRAME_BUFFER_HEIGHT
                   /\ to_x < FRAME_BUFFER_WIDTH
                THEN [acc EXCEPT !.pixels = pixel_set(@, to_y, to_x, new),
                                 !.ret = IF old # new THEN 1 ELSE @]
                ELSE acc
        IN  display_bits_clipped([drawn EXCEPT !.sprite = (@ * 2) % 256],
                                 x_cor, y_cor, row, x + 1)

\* The inner loop of display, for x in 0..8, from bit x on.  acc holds the
\* pixels, ret and the sprite byte as shifted so far.
RECURSIVE display_bits(_, _, _, _, _)
display_bits(acc, x_cor, y_cor, row, x) ==
    IF x >= 8 THEN acc
    ELSE
        LET to_y == bitand(y_cor + row, 31)
            to_x == bitand(x_cor + x, 63)
            old == pixel_at(acc.pixels, to_y, to_x)
            new == bitxor(old, 1)
            drawn ==
                IF acc.sprite \div 128 > 0
                THEN [acc EXCEPT !.pixels = pixel_set(@, to_y, to_x, new),
                                 !.ret = IF old # new THEN 1 ELSE @]
                ELSE acc
        IN  display_bits([drawn EXCEPT !.sprite = (@ * 2) % 256],
                         x_cor, y_cor, row, x + 1)

\* The outer loop of display, for row in 0..n, from row on.  Reading
\* mem[i + row] past the end of memory panics with the rows before it drawn.
RECURSIVE display_rows(_, _, _, _, _, _, _, _)
display_rows(acc, m, i, x_cor, y_cor, n, row, checks) ==
    IF row >= n THEN acc
    ELSE IF i + row >= 65536 /\ checks
    THEN [acc EXCEPT !.status = "panic: arithmetic overflow"]
    ELSE IF (i + row) % 65536 >= MEMORY_SIZE
    THEN [acc EXCEPT !.status = "panic: index out of bounds"]
    ELSE
        LET r == display_bits([pixels |-> acc.pixels, ret |-> acc.ret,
                               sprite |-> mem_at(m, (i + row) % 65536)],
                              x_cor, y_cor, row, 0)
        IN  display_rows([acc EXCEPT !.pixels = r.pixels, !.ret = r.ret],
                         m, i, x_cor, y_cor, n, row + 1, checks)

\* display(pixels, mem, i, x_cor, y_cor, n): the pixels as left, the value
\* returned and whether the call returned ("running") or panicked.
display(pixels, m, i, x_cor, y_cor, n, checks) ==
    display_rows([pixels |-> pixels, ret |-> 0, status |-> "running"],
                 m, i, x_cor, y_cor, n, 0, checks)

(***************************************************************************)
(* chip8.rs: impl Chip8Interpreter                                         *)
(***************************************************************************)
\* self: the struct, with the state of the process and of the build.
Self ==
    [ registers_v |-> registers_v, register_i |-> register_i,
      delay_timer |-> delay_timer, sound_timer |-> sound_timer,
      register_pc |-> register_pc, mem |-> mem, frame_buffer |-> frame_buffer,
      stack |-> stack, old_shift |-> old_shift,
      overflow_checks |-> overflow_checks, status |-> status, cycles |-> cycles ]

\* init_mem: [0; 4096] with the font stored from address 0.
init_mem == [ x \in 0..(Len(FONTS_DATA) - 1) |-> FONTS_DATA[x + 1] ]

\* new with 'delay_timer: 60', the value the commented line of
\* tests::test_bc sets.
new_delay_timer_set(file, checks) ==
    [ registers_v |-> [ r \in 0..15 |-> 0 ],
      register_i |-> 0,
      delay_timer |-> 60,
      sound_timer |-> 0,
      register_pc |-> FIRST_LOADABLE_ADDR,
      mem |-> init_mem,
      frame_buffer |-> { },
      stack |-> << >>,
      old_shift |-> FALSE,
      overflow_checks |-> checks,
      status |-> "created",
      cycles |-> 0 ]

\* Chip8Interpreter::new, for a file and a build.
new(file, checks) ==
    [ registers_v |-> [ r \in 0..15 |-> 0 ],
      register_i |-> 0,
      delay_timer |-> 0,
      sound_timer |-> 0,
      register_pc |-> FIRST_LOADABLE_ADDR,
      mem |-> init_mem,
      frame_buffer |-> { },
      stack |-> << >>,
      old_shift |-> FALSE,
      overflow_checks |-> checks,
      status |-> "created",
      cycles |-> 0 ]

\* load_rom with 'file.len() >= file_length_threshold' as its test.
load_rom_strict(self, file) ==
    LET file_length_threshold == MEMORY_SIZE - FIRST_LOADABLE_ADDR
    IN  IF Len(file) >= file_length_threshold
        THEN [self EXCEPT !.status = "panic: rom too long"]
        ELSE [self EXCEPT
                !.mem = [ a \in DOMAIN self.mem
                                    \cup { \h200 + idx - 1 : idx \in 1..Len(file) } |->
                            IF a >= \h200 /\ a - \h200 < Len(file)
                            THEN file[a - \h200 + 1] ELSE self.mem[a] ],
                !.status = "running"]

\* load_rom copying to mem[idx] instead of mem[0x200 + idx].
load_rom_at_zero(self, file) ==
    LET file_length_threshold == MEMORY_SIZE - FIRST_LOADABLE_ADDR
    IN  IF Len(file) > file_length_threshold
        THEN [self EXCEPT !.status = "panic: rom too long"]
        ELSE [self EXCEPT
                !.mem = [ a \in DOMAIN self.mem
                                    \cup { idx - 1 : idx \in 1..Len(file) } |->
                            IF a < Len(file) THEN file[a + 1] ELSE self.mem[a] ],
                !.status = "running"]

\* load_rom: the length test, then the copy to 0x200 onwards.
load_rom(self, file) ==
    LET file_length_threshold == MEMORY_SIZE - FIRST_LOADABLE_ADDR
    IN  IF Len(file) > file_length_threshold
        THEN [self EXCEPT !.status = "panic: rom too long"]
        ELSE [self EXCEPT
                !.mem = [ a \in DOMAIN self.mem
                                    \cup { \h200 + idx - 1 : idx \in 1..Len(file) } |->
                            IF a >= \h200 /\ a - \h200 < Len(file)
                            THEN file[a - \h200 + 1] ELSE self.mem[a] ],
                !.status = "running"]

\* u16 addition as the build compiles it: << the sum, whether it panicked >>.
add_u16(a, b, checks) == << (a + b) % 65536, checks /\ a + b >= 65536 >>

\* fetch advancing register_pc by one byte.
fetch_one_byte_step(self) ==
    LET addr == self.register_pc
        next == add_u16(self.register_pc, 1, self.overflow_checks)
        advanced == [self EXCEPT !.register_pc = next[1]]
    IN  IF next[2]
        THEN [self |-> [self EXCEPT !.status = "panic: arithmetic overflow"],
              opcode |-> 0]
        ELSE IF addr + 1 >= MEMORY_SIZE
        THEN [self |-> [advanced EXCEPT !.status = "panic: index out of bounds"],
              opcode |-> 0]
        ELSE [self |-> advanced,
              opcode |-> bitor(mem_at(self.mem, addr) * 256,
                               mem_at(self.mem, addr + 1))]

\* fetch joining the two bytes low byte first.
fetch_low_byte_first(self) ==
    LET addr == self.register_pc
        next == add_u16(self.register_pc, 2, self.overflow_checks)
        advanced == [self EXCEPT !.register_pc = next[1]]
    IN  IF next[2]
        THEN [self |-> [self EXCEPT !.status = "panic: arithmetic overflow"],
              opcode |-> 0]
        ELSE IF addr + 1 >= MEMORY_SIZE
        THEN [self |-> [advanced EXCEPT !.status = "panic: index out of bounds"],
              opcode |-> 0]
        ELSE [self |-> advanced,
              opcode |-> bitor(mem_at(self.mem, addr + 1) * 256,
                               mem_at(self.mem, addr))]

\* fetch: register_pc is advanced before memory is indexed.
fetch(self) ==
    LET addr == self.register_pc
        next == add_u16(self.register_pc, 2, self.overflow_checks)
        advanced == [self EXCEPT !.register_pc = next[1]]
    IN  IF next[2]
        THEN [self |-> [self EXCEPT !.status = "panic: arithmetic overflow"],
              opcode |-> 0]
        ELSE IF addr + 1 >= MEMORY_SIZE
        THEN [self |-> [advanced EXCEPT !.status = "panic: index out of bounds"],
              opcode |-> 0]
        ELSE [self |-> advanced,
              opcode |-> bitor(mem_at(self.mem, addr) * 256,
                               mem_at(self.mem, addr + 1))]

\* self.stack.push(addr).
stack_push(st, addr) == Append(st, addr)

\* stack.pop() taking the oldest address instead of the newest.
stack_pop_oldest(st) ==
    IF Len(st) = 0 THEN [ some |-> FALSE, addr |-> 0, rest |-> st ]
    ELSE [ some |-> TRUE, addr |-> Head(st), rest |-> Tail(st) ]

\* stack.pop() followed by unwrap_or_default() in place of unwrap().
stack_pop_or_default(st) ==
    IF Len(st) = 0 THEN [ some |-> TRUE, addr |-> 0, rest |-> st ]
    ELSE [ some |-> TRUE, addr |-> st[Len(st)], rest |-> SubSeq(st, 1, Len(st) - 1) ]

\* self.stack.pop(): an Option, None for the empty stack; rest is the stack
\* it leaves.
stack_pop(st) ==
    IF Len(st) = 0 THEN [ some |-> FALSE, addr |-> 0, rest |-> st ]
    ELSE [ some |-> TRUE, addr |-> st[Len(st)], rest |-> SubSeq(st, 1, Len(st) - 1) ]

\* The registers after 'registers_v[0xF] = f(&mut registers_v[x])': the
\* shifted value is stored first, then the flag.
shift_into(regs, x, shifted) ==
    [[regs EXCEPT ![x] = shifted[2]] EXCEPT ![15] = shifted[1]]

\* execute, for the variant inst of the opcode op, with rnd what random::<u8>()
\* returns.
execute(self, inst, op, rnd) ==
    LET v == self.registers_v
        skip == add_u16(self.register_pc, 2, self.overflow_checks)
        skipped ==
            IF skip[2] THEN [self EXCEPT !.status = "panic: arithmetic overflow"]
            ELSE [self EXCEPT !.register_pc = skip[1]]
    IN  CASE inst = "End" -> [self EXCEPT !.status = "exited"]
          [] inst = "I00E0" ->
                [self EXCEPT !.frame_buffer = { }]
          [] inst = "I00EE" ->
                LET popped == stack_pop(self.stack)
                IN  IF ~popped.some
                    THEN [self EXCEPT !.status = "panic: unwrap on None"]
                    ELSE [self EXCEPT !.register_pc = popped.addr,
                                      !.stack = popped.rest]
          [] inst = "I1NNN" -> [self EXCEPT !.register_pc = op.nnn]
          [] inst = "I2NNN" ->
                [self EXCEPT !.stack = stack_push(@, self.register_pc),
                             !.register_pc = op.nnn]
          [] inst = "I3XNN" -> IF op.x = op.kk THEN skipped ELSE self
          [] inst = "I4XNN" -> IF op.x # op.kk THEN skipped ELSE self
          [] inst = "I5XY0" -> IF op.x = op.y THEN skipped ELSE self
          [] inst = "I9XY0" -> IF op.x # op.y THEN skipped ELSE self
          [] inst = "I6XNN" -> [self EXCEPT !.registers_v[op.x] = op.kk]
          [] inst = "I7XNN" ->
                IF self.overflow_checks /\ v[op.x] + op.kk >= 256
                THEN [self EXCEPT !.status = "panic: arithmetic overflow"]
                ELSE [self EXCEPT !.registers_v[op.x] = (v[op.x] + op.kk) % 256]
          [] inst = "I8XY0" -> [self EXCEPT !.registers_v[op.x] = v[op.y]]
          [] inst = "I8XY1" ->
                [self EXCEPT !.registers_v[op.x] = bitor(v[op.x], v[op.y])]
          [] inst = "I8XY2" ->
                [self EXCEPT !.registers_v[op.x] = bitand(v[op.x], v[op.y])]
          [] inst = "I8XY3" ->
                [self EXCEPT !.registers_v[op.x] = bitxor(v[op.x], v[op.y])]
          [] inst = "I8XY4" ->
                LET r == add_carry(v[op.x], v[op.y])
                IN  [self EXCEPT !.registers_v =
                        [[v EXCEPT ![op.x] = r[2]] EXCEPT ![15] = r[1]]]
          [] inst = "I8XY5" ->
                LET r == subtract_carry(v[op.x], v[op.y])
                IN  [self EXCEPT !.registers_v =
                        [[v EXCEPT ![op.x] = r[2]] EXCEPT ![15] = r[1]]]
          [] inst = "I8XY6" ->
                LET copied == IF self.old_shift THEN [v EXCEPT ![op.x] = v[op.y]]
                              ELSE v
                IN  [self EXCEPT !.registers_v =
                        shift_into(copied, op.x, shift_left_carry(copied[op.x]))]
          [] inst = "I8XYE" ->
                LET copied == IF self.old_shift THEN [v EXCEPT ![op.x] = v[op.y]]
                              ELSE v
                IN  [self EXCEPT !.registers_v =
                        shift_into(copied, op.x, shift_right_carry(copied[op.x]))]
          [] inst = "I8XY7" ->
                LET r == subtract_carry(v[op.y], v[op.x])
                IN  [self EXCEPT !.registers_v =
                        [[v EXCEPT ![op.x] = r[2]] EXCEPT ![15] = r[1]]]
          [] inst = "IANNN" -> [self EXCEPT !.register_i = op.nnn]
          [] inst = "IBNNN" ->
                [self EXCEPT !.register_pc = (op.nnn + v[0]) % 65536]
          [] inst = "ICXNN" ->
                [self EXCEPT !.registers_v[op.x] = bitand(rnd, op.kk)]
          [] inst = "IDXYN" ->
                LET x_cor == bitand(v[op.x], 63)
                    y_cor == bitand(v[op.y], 31)
                    d == display(self.frame_buffer, self.mem, self.register_i,
                                 x_cor, y_cor, op.n, self.overflow_checks)
                IN  IF d.status = "running"
                    THEN [self EXCEPT !.registers_v[15] = d.ret,
                                      !.frame_buffer = d.pixels]
                    ELSE [self EXCEPT !.registers_v[15] = 0,
                                      !.frame_buffer = d.pixels,
                                      !.status = d.status]
          [] OTHER -> [self EXCEPT !.status = "panic: not implemented"]

\* exec with an End arm that returns instead of exiting the process.
exec_end_returns(self, rnd) ==
    LET f == fetch([self EXCEPT !.cycles = @ + 1])
        inst == from_raw_opcode(f.opcode)
    IN  IF f.self.status # "running" THEN f.self
        ELSE IF inst = "Err"
        THEN [f.self EXCEPT !.status = "panic: cannot decode"]
        ELSE IF inst = "End" THEN f.self
        ELSE execute(f.self, inst, Opcode_new(f.opcode), rnd)

\* exec: fetch, decode (which panics on Err), execute.
exec(self, rnd) ==
    LET f == fetch([self EXCEPT !.cycles = @ + 1])
        inst == from_raw_opcode(f.opcode)
    IN  IF f.self.status # "running" THEN f.self
        ELSE IF inst = "Err"
        THEN [f.self EXCEPT !.status = "panic: cannot decode"]
        ELSE execute(f.self, inst, Opcode_new(f.opcode), rnd)

\* timer_arm without its tests for zero: the u16 timers wrap below zero.
timer_arm_unclamped(self) ==
    [self EXCEPT !.delay_timer = (@ + 65535) % 65536,
                 !.sound_timer = (@ + 65535) % 65536]

\* The timer_ticker arm of the select! in run_rom.
timer_arm(self) ==
    LET d == IF self.delay_timer # 0
             THEN [self EXCEPT !.delay_timer = @ - 1] ELSE self
    IN  IF d.sound_timer # 0 THEN [d EXCEPT !.sound_timer = @ - 1] ELSE d

\* cpu_arm without its test of delay_timer.
cpu_arm_ungated(self, rnd) == exec(self, rnd)

\* The cpu_timer arm of the select! in run_rom.
cpu_arm(self, rnd) ==
    IF self.delay_timer = 0 THEN exec(self, rnd) ELSE self

(***************************************************************************)
(* The files run_rom is given                                              *)
(***************************************************************************)
\* The bytes of a program given as its 16-bit words, big-endian.
RECURSIVE Bytes(_)
Bytes(words) ==
    IF words = << >> THEN << >>
    ELSE << Head(words) \div 256, Head(words) % 256 >> \o Bytes(Tail(words))

\* One word of every instruction class and of every word outside the table:
\* each high nibble and each low nibble, with x in {0, 1} and y in {0, 1, E}.
DecodeWords ==
    { h * 4096 + x * 256 + y * 16 + n :
        h \in 0..15, x \in {0, 1}, y \in {0, 1, 14}, n \in 0..15 }

\* Register contents a program sets up with 0x6xkk.
TestBytes == { 0, 1, 5, 128, 255 }

\* The instructions run on those contents: v0 = a, v1 = b, then the word.
OpWords ==
    { \h3000, \h3001, \h3005, \h3105, \h4000, \h4001, \h4005, \h4105,
      \h5010, \h5000, \h5100, \h9010, \h9000, \h9100,
      \h7000, \h7001, \h70FF, \h7105,
      \h8010, \h8011, \h8012, \h8013, \h8014, \h8015, \h8016, \h8017, \h801E,
      \h8104, \h8105, \h8106, \h8107, \h810E,
      \hD011, \hD015 }

GlyphRom == Bytes(<< \hA000, \hD005 >>)

\* Programs of several instructions: draws over draws, draws at the edges,
\* calls and returns, jumps.
Scenarios ==
    { << \hA000, \hD005 >>,
      << \hA000, \hD005, \hD005 >>,
      << \hA000, \hD005, \hA005, \hD005 >>,
      << \hA000, \hD005, \h00E0, \hD005 >>,
      << \h603F, \h611F, \hD015 >>,
      << \h603D, \h611E, \hA00A, \hD015 >>,
      << \hAFFE, \hD005 >>,
      << \h2204, \h0000, \h00EE >>,
      << \h2204, \h0000, \h2208, \h0000, \h00EE >>,
      << \h2204, \h0000, \h2208, \h00EE, \h00EE >>,
      << \h1204, \h0000, \h1202 >>,
      << \h1200 >>,
      << \h1203 >>,
      << \h1FFE >>,
      << \h1FFF >>,
      << \h2FFE >>,
      << \hABBC >>,
      << \hD005, \hA005, \hD005, \hD005 >>,
      << \h603F, \h611F, \hD015, \hD015 >>,
      << \h600A, \h6114, \h8015 >> }

\* A file of n zero bytes.
Zeros(n) == [ k \in 1..n |-> 0 ]

\* A file of the greatest accepted length whose first word jumps to its last,
\* 0x6000 at 0xFFE: the instruction after it would lie at 0x1000.
RunsOffEnd ==
    << \h1F, \hFE >> \o Zeros(MEMORY_SIZE - FIRST_LOADABLE_ADDR - 4) \o << \h60, \h00 >>

Roms ==
    { Bytes(<< w >>) : w \in DecodeWords }
    \cup { Bytes(<< \h6000 + a, \h6100 + b, w >>) :
             a \in TestBytes, b \in TestBytes, w \in OpWords }
    \cup { Bytes(p) : p \in Scenarios }
    \cup { << >>, << \h12 >>,
           Zeros(MEMORY_SIZE - FIRST_LOADABLE_ADDR),
           << \hA0 >> \o Zeros(MEMORY_SIZE - FIRST_LOADABLE_ADDR),
           RunsOffEnd }

\* What random::<u8>() may return.
RandomBytes == { 0, 85, 255 }

(***************************************************************************)
(* The process: main creates the interpreter and calls run_rom             *)
(***************************************************************************)
\* The variables take the fields of s.
Becomes(s) ==
    /\ registers_v' = s.registers_v
    /\ register_i' = s.register_i
    /\ delay_timer' = s.delay_timer
    /\ sound_timer' = s.sound_timer
    /\ register_pc' = s.register_pc
    /\ mem' = s.mem
    /\ frame_buffer' = s.frame_buffer
    /\ stack' = s.stack
    /\ old_shift' = s.old_shift
    /\ status' = s.status
    /\ cycles' = s.cycles
    /\ UNCHANGED << rom, overflow_checks >>

\* The state with the fields of s, for the file and build of s.
Starts(s, file) ==
    /\ registers_v = s.registers_v
    /\ register_i = s.register_i
    /\ delay_timer = s.delay_timer
    /\ sound_timer = s.sound_timer
    /\ register_pc = s.register_pc
    /\ mem = s.mem
    /\ frame_buffer = s.frame_buffer
    /\ stack = s.stack
    /\ old_shift = s.old_shift
    /\ status = s.status
    /\ cycles = s.cycles
    /\ overflow_checks = s.overflow_checks
    /\ rom = file
    /\ event = "none"

\* A freshly created interpreter, about to run some file, in some build.
Init ==
    \E file \in Roms, checks \in BOOLEAN :
        \E s \in { new(file, checks) } : Starts(s, file)

\* run_rom calls load_rom before its loop.
LoadRom ==
    /\ status = "created"
    /\ \E s \in { load_rom(Self, rom) } : Becomes(s)
    /\ UNCHANGED event

\* The select! receives from timer_ticker.
TimerTick ==
    /\ status = "running"
    /\ \E s \in { timer_arm(Self) } : Becomes(s)
    /\ event' = "timer"

\* The select! receives from cpu_timer.
CpuTick ==
    /\ status = "running"
    /\ cycles < MaxCycles
    /\ \E s \in { cpu_arm(Self, rnd) : rnd \in RandomBytes } : Becomes(s)
    /\ event' = "cpu"

Next == LoadRom \/ TimerTick \/ CpuTick

Spec == Init /\ [][Next]_vars

(***************************************************************************)
(* The same loop on an interpreter whose timers a test has set before      *)
(* run_rom, as tests::test_bc does with cpu.delay_timer                    *)
(***************************************************************************)
TimerRoms ==
    { Bytes(p) : p \in { << \hA000, \hD005 >>, << \h6005, \h7003, \h1200 >>,
                         << \h2204, \h0000, \h00EE >>, << \hF000 >> } }

TimerInit ==
    \E file \in TimerRoms, checks \in BOOLEAN,
       d \in 0..MaxTimer, s \in 0..MaxTimer :
        \E t \in { [new(file, checks) EXCEPT !.delay_timer = d,
                                              !.sound_timer = s] } :
            Starts(t, file)

TimerSpec == TimerInit /\ [][Next]_vars

(***************************************************************************)
(* Steps and words the properties speak of                                 *)
(***************************************************************************)
\* The step is an instruction-clock event / a timer-clock event.
CpuEvent == event' = "cpu"
TimerEvent == event' = "timer"

\* The step is a fetch-decode-execute cycle whose fetch returned a word.
Cycle == CpuEvent /\ cycles' = cycles + 1 /\ fetch(Self).self.status = "running"

\* The word that cycle fetched, and its fields.
Word == fetch(Self).opcode
WordX == (Word \div 256) % 16
WordY == (Word \div 16) % 16
WordN == Word % 16
WordKK == Word % 256
WordHi == Word \div 4096

\* The row of the instruction table of the specification a word matches, named
\* by the variant of that row; "none" for a word that matches no row.
TableRow(w) ==
    LET hi == w \div 4096
        n == w % 16
    IN  CASE w = \h0000 -> "End"
          [] w = \h00E0 -> "I00E0"
          [] w = \h00EE -> "I00EE"
          [] hi = 1 -> "I1NNN"
          [] hi = 2 -> "I2NNN"
          [] hi = 3 -> "I3XNN"
          [] hi = 4 -> "I4XNN"
          [] hi = 5 /\ n = 0 -> "I5XY0"
          [] hi = 6 -> "I6XNN"
          [] hi = 7 -> "I7XNN"
          [] hi = 8 /\ n \in 0..7 ->
                << "I8XY0", "I8XY1", "I8XY2", "I8XY3", "I8XY4", "I8XY5",
                   "I8XY6", "I8XY7" >>[n + 1]
          [] hi = 8 /\ n = 14 -> "I8XYE"
          [] hi = 9 /\ n = 0 -> "I9XY0"
          [] hi = 10 -> "IANNN"
          [] hi = 11 -> "IBNNN"
          [] hi = 12 -> "ICXNN"
          [] hi = 13 -> "IDXYN"
          [] OTHER -> "none"

(***************************************************************************)
(* C1                                                                      *)
(***************************************************************************)
\* C1: an instruction-clock event performs a fetch-decode-execute cycle only
\* when delay_timer = 0: with delay_timer nonzero it leaves register_pc and
\* all the rest of the machine unchanged and calls exec() not at all, and with
\* delay_timer zero it calls exec() once.
C1_SchedulerGating ==
    [][ CpuEvent =>
          IF delay_timer # 0
          THEN UNCHANGED << machine, status, cycles >>
          ELSE cycles' = cycles + 1 ]_vars

\* An instruction-clock event has been handled with the delay timer still
\* running: nothing was fetched.
C1_Witness ==
    /\ event = "cpu"
    /\ delay_timer # 0
    /\ status = "running"
    /\ cycles = 0
    /\ register_pc = FIRST_LOADABLE_ADDR

(***************************************************************************)
(* C2                                                                      *)
(***************************************************************************)
\* C2: a timer-clock event decrements delay_timer by exactly 1 if it is
\* nonzero and leaves it at 0 if it is zero, does the same for sound_timer
\* whatever delay_timer is, never takes a timer below zero, and changes
\* nothing else.
C2_TimerDecrement ==
    [][ TimerEvent =>
          /\ delay_timer' = (IF delay_timer # 0 THEN delay_timer - 1 ELSE 0)
          /\ sound_timer' = (IF sound_timer # 0 THEN sound_timer - 1 ELSE 0)
          /\ delay_timer' \in 0..delay_timer
          /\ sound_timer' \in 0..sound_timer
          /\ UNCHANGED << registers_v, register_i, register_pc, mem,
                          frame_buffer, stack, old_shift, status, cycles >> ]_vars

\* A timer-clock event has been handled that left delay_timer at zero while
\* sound_timer is still counting down.
C2_Witness ==
    /\ event = "timer"
    /\ delay_timer = 0
    /\ sound_timer > 0
    /\ sound_timer < MaxTimer

(***************************************************************************)
(* C3                                                                      *)
(***************************************************************************)
\* C3: each skip instruction advances register_pc by an extra 2 beyond the
\* fetch exactly when its condition on the register contents holds:
\* 0x3xkk iff v[x] = kk, 0x4xkk iff v[x] # kk, 0x5xy0 iff v[x] = v[y],
\* 0x9xy0 iff v[x] # v[y].
C3_SkipOnContents ==
    [][ /\ Cycle
        /\ \/ WordHi \in { 3, 4 }
           \/ WordHi \in { 5, 9 } /\ WordN = 0
        =>
        LET holds ==
                CASE WordHi = 3 -> registers_v[WordX] = WordKK
                  [] WordHi = 4 -> registers_v[WordX] # WordKK
                  [] WordHi = 5 -> registers_v[WordX] = registers_v[WordY]
                  [] WordHi = 9 -> registers_v[WordX] # registers_v[WordY]
        IN  register_pc' = register_pc + 2 + (IF holds THEN 2 ELSE 0) ]_vars

(***************************************************************************)
(* C4                                                                      *)
(***************************************************************************)
\* C4: every word that matches a row of the instruction table is classified
\* into the variant of that row and is never a decode failure.
C4_TableWordsDecode ==
    [][ Cycle /\ TableRow(Word) # "none" =>
          /\ from_raw_opcode(Word) = TableRow(Word)
          /\ status' # "panic: cannot decode" ]_vars

(***************************************************************************)
(* C5                                                                      *)
(***************************************************************************)
\* C5: every word that matches no row of the instruction table is a fatal
\* decode failure: it yields no variant, and the run ends abnormally with
\* nothing of the machine changed but the program counter the fetch advanced.
C5_OtherWordsFail ==
    [][ Cycle /\ TableRow(Word) = "none" =>
          /\ from_raw_opcode(Word) = "Err"
          /\ status' = "panic: cannot decode"
          /\ register_pc' = register_pc + 2
          /\ UNCHANGED << registers_v, register_i, delay_timer, sound_timer,
                          mem, frame_buffer, stack, old_shift >> ]_vars

(***************************************************************************)
(* C6                                                                      *)
(***************************************************************************)
\* C6: with the legacy-shift quirk off, 0x8xy6 sets v[F] to bit 0 of v[x] and
\* v[x] to v[x] div 2, and 0x8xyE sets v[F] to bit 7 of v[x] and v[x] to
\* (2 * v[x]) mod 256 (the new v[x] read for x other than F); v[y] is not
\* copied into v[x] first.
C6_ShiftDirection ==
    [][ Cycle /\ WordHi = 8 /\ WordN \in { 6, 14 } /\ ~old_shift =>
          LET vx == registers_v[WordX]
          IN  IF WordN = 6
              THEN /\ registers_v'[15] = vx % 2
                   /\ WordX # 15 => registers_v'[WordX] = vx \div 2
              ELSE /\ registers_v'[15] = vx \div 128
                   /\ WordX # 15 => registers_v'[WordX] = (2 * vx) % 256 ]_vars

(***************************************************************************)
(* C7                                                                      *)
(***************************************************************************)
\* C7: after 0x8xy5, v[F] = 1 iff v[x] >= v[y] (no borrow) and 0 otherwise,
\* with v[x] = (v[x] - v[y]) mod 256; after 0x8xy7, v[F] = 1 iff
\* v[y] >= v[x] and 0 otherwise, with v[x] = (v[y] - v[x]) mod 256 (the new
\* v[x] read for x other than F).
C7_SubtractNoBorrowFlag ==
    [][ Cycle /\ WordHi = 8 /\ WordN \in { 5, 7 } =>
          LET a == IF WordN = 5 THEN registers_v[WordX] ELSE registers_v[WordY]
              b == IF WordN = 5 THEN registers_v[WordY] ELSE registers_v[WordX]
          IN  /\ registers_v'[15] = (IF a >= b THEN 1 ELSE 0)
              /\ WordX # 15 => registers_v'[WordX] = (256 + a - b) % 256 ]_vars

(***************************************************************************)
(* C8                                                                      *)
(***************************************************************************)
\* C8: a draw 0xDxyn that completes sets v[F] = 1 iff it turned at least one
\* pixel that was on before the draw to off, and v[F] = 0 otherwise.
C8_DrawCollisionFlag ==
    [][ Cycle /\ WordHi = 13 /\ status' = "running" =>
          registers_v'[15] =
            (IF \E p \in frame_buffer : p \notin frame_buffer' THEN 1 ELSE 0) ]_vars

(***************************************************************************)
(* C9                                                                      *)
(***************************************************************************)
\* The glyph '0' in the top-left corner: rows 0..4 of columns 0..3 are
\* 1111, 1001, 1001, 1001, 1111.
GlyphZeroPixels ==
    { << y, x >> : y \in { 0, 4 }, x \in 0..3 }
    \cup { << y, x >> : y \in 1..3, x \in { 0, 3 } }

\* C9: from a freshly created machine with the image 0xA000, 0xD005, after
\* two instruction-clock events the frame buffer holds exactly the glyph '0',
\* register_i = 0 and v[F] = 0.
C9_GlyphEndToEnd ==
    (rom = GlyphRom /\ cycles = 2) =>
        /\ status = "running"
        /\ frame_buffer = GlyphZeroPixels
        /\ register_i = 0
        /\ registers_v[15] = 0

(***************************************************************************)
(* C10                                                                     *)
(***************************************************************************)
\* C10: 0x7xkk leaves (v[x] + kk) mod 256 in v[x], also when v[x] + kk > 255,
\* the run continuing normally, and does not modify v[F] (for x other than F).
C10_AddWraps ==
    [][ Cycle /\ WordHi = 7 =>
          /\ status' = "running"
          /\ registers_v'[WordX] = (registers_v[WordX] + WordKK) % 256
          /\ WordX # 15 => registers_v'[15] = registers_v[15] ]_vars

(***************************************************************************)
(* C11                                                                     *)
(***************************************************************************)
\* C11: 0x8xy4 with a = v[x], b = v[y] leaves v[F] = 1 if a + b > 255 and 0
\* otherwise, and (for x other than F) v[x] = (a + b) mod 256; add_carry(a, b)
\* is (1, a + b - 256) if a + b > 255 and (0, a + b) otherwise.
C11_AddWithCarry ==
    [][ Cycle /\ WordHi = 8 /\ WordN = 4 =>
          LET a == registers_v[WordX]
              b == registers_v[WordY]
          IN  /\ status' = "running"
              /\ registers_v'[15] = (IF a + b > 255 THEN 1 ELSE 0)
              /\ WordX # 15 => registers_v'[WordX] = (a + b) % 256
              /\ add_carry(a, b) = (IF a + b > 255 THEN << 1, a + b - 256 >>
                                    ELSE << 0, a + b >>) ]_vars

\* 0x8014 has run with v[0] = 255 and v[1] = 1: the sum carried.
C11_Witness ==
    /\ rom = Bytes(<< \h60FF, \h6101, \h8014 >>)
    /\ cycles = 3
    /\ registers_v[0] = 0
    /\ registers_v[15] = 1

(***************************************************************************)
(* C12                                                                     *)
(***************************************************************************)
\* What C12 says fetch does from the state the machine is in: it returns
\* mem[register_pc] * 256 + mem[register_pc + 1] and leaves the machine as it
\* was but for register_pc, which is 2 more.
FetchReturnsWord ==
    LET f == fetch(Self)
    IN  /\ f.opcode = mem_at(mem, register_pc) * 256 + mem_at(mem, register_pc + 1)
        /\ f.self = [Self EXCEPT !.register_pc = register_pc + 2]

\* C12 as stated: for every value of register_pc, fetch returns the
\* big-endian word at register_pc, sets register_pc to register_pc + 2 and
\* changes nothing else.
C12_FetchEveryPc ==
    status = "running" => FetchReturnsWord

\* What fetch does where the word exists: the same for every register_pc
\* with register_pc + 1 an address of memory (register_pc <= 0xFFE).
C12_FetchWithinMemory ==
    (status = "running" /\ register_pc + 1 < MEMORY_SIZE) => FetchReturnsWord

\* The file 0xAB, 0xBC has been fetched from 0x200 as 0xABBC: register_pc is
\* 0x202 and the 0xAnnn the word decodes to has stored 0xBBC.
C12_Witness ==
    /\ rom = << \hAB, \hBC >>
    /\ cycles = 1
    /\ register_pc = \h202
    /\ register_i = \hBBC

(***************************************************************************)
(* C13                                                                     *)
(***************************************************************************)
\* Two nested calls and their two returns: 0x200 calls 0x204, 0x204 calls
\* 0x208, and 0x208, 0x206 return.
NestedCalls == Bytes(<< \h2204, \h0000, \h2208, \h00EE, \h00EE >>)

\* An instruction-clock event that executes 0x2nnn / 0x00EE.
CallStep == Cycle /\ WordHi = 2
ReturnStep == Cycle /\ Word = \h00EE

\* C13: 0x2nnn fetched at address a pushes a + 2 and sets register_pc = nnn;
\* 0x00EE with a non-empty stack pops the most recently pushed address into
\* register_pc; nothing else changes the stack, so that nested calls return
\* in LIFO order to the instruction after the matching call and a matched
\* call/return pair leaves the depth as it was.
C13_CallReturnPairing ==
    /\ [][ /\ CallStep =>
                /\ status' = "running"
                /\ stack' = Append(stack, register_pc + 2)
                /\ register_pc' = Word % 4096
           /\ (ReturnStep /\ stack # << >>) =>
                /\ status' = "running"
                /\ register_pc' = stack[Len(stack)]
                /\ stack' = SubSeq(stack, 1, Len(stack) - 1)
           /\ ~(CallStep \/ ReturnStep) => stack' = stack ]_vars
    /\ [](rom = NestedCalls =>
            /\ cycles = 2 => (register_pc = \h208 /\ stack = << \h202, \h206 >>)
            /\ cycles = 3 => (register_pc = \h206 /\ stack = << \h202 >>)
            /\ cycles = 4 => (register_pc = \h202 /\ stack = << >>))

\* Both returns of the nested calls have run: the outer caller resumes at
\* 0x202 with the stack as deep as before the first call.
C13_Witness ==
    /\ rom = NestedCalls
    /\ cycles = 4
    /\ status = "running"
    /\ register_pc = \h202
    /\ stack = << >>

(***************************************************************************)
(* C14                                                                     *)
(***************************************************************************)
\* C14: 0x00EE with the call stack empty ends the run abnormally: register_pc
\* keeps the value fetch gave it and is not set from the stack, the rest of
\* the machine is untouched, and no event acts on the machine afterwards.
C14_StackUnderflowFatal ==
    [][ /\ (ReturnStep /\ stack = << >>) =>
            /\ status' = "panic: unwrap on None"
            /\ register_pc' = register_pc + 2
            /\ stack' = << >>
            /\ UNCHANGED << registers_v, register_i, delay_timer, sound_timer,
                            mem, frame_buffer >>
        /\ status # "panic: unwrap on None" ]_vars

\* The file 0x00EE has run on the empty stack of a fresh machine.
C14_Witness ==
    /\ rom = Bytes(<< \h00EE >>)
    /\ status = "panic: unwrap on None"
    /\ cycles = 1
    /\ register_pc = \h202

(***************************************************************************)
(* C15                                                                     *)
(***************************************************************************)
\* C15: the fetched word 0x0000 ends the run in the successful terminal
\* state, which is none of the abnormal ones, the machine being left as it
\* was but for the register_pc of fetch; no other word and no other event
\* ends the run so, and no event acts on the machine after it.
C15_HaltTerminal ==
    [][ /\ (Cycle /\ Word = \h0000) =>
            /\ status' = "exited"
            /\ status' \notin PanicStatuses
            /\ register_pc' = register_pc + 2
            /\ UNCHANGED << registers_v, register_i, delay_timer, sound_timer,
                            mem, frame_buffer, stack >>
        /\ status' = "exited" => (Cycle /\ Word = \h0000)
        /\ status # "exited" ]_vars

\* The halt word at 0x202 has ended a run that jumped over it and back.
C15_Witness ==
    /\ rom = Bytes(<< \h1204, \h0000, \h1202 >>)
    /\ status = "exited"
    /\ cycles = 3
    /\ register_pc = \h204

(***************************************************************************)
(* C16                                                                     *)
(***************************************************************************)
\* C16 as stated: register_pc starts at 0x200 and is even in every reachable
\* state in which a fetch is about to be performed, whatever the program.
C16_PcAlwaysEven ==
    /\ status = "created" => register_pc = \h200
    /\ status = "running" => register_pc % 2 = 0

\* register_pc and every return address on the stack are even.
Aligned ==
    /\ register_pc % 2 = 0
    /\ \A k \in 1..Len(stack) : stack[k] % 2 = 0

\* An instruction-clock event that executes a 0x1nnn or 0x2nnn with nnn odd.
OddTargetStep == Cycle /\ WordHi \in { 1, 2 } /\ Word % 2 = 1

\* C16, amended: register_pc starts at 0x200, and every event other than a
\* jump or call to an odd address (straight-line execution, skips, returns,
\* jumps and calls to even addresses, timer events) keeps register_pc and the
\* return addresses even; so register_pc is even before every fetch of a run
\* that has executed no jump or call to an odd address.
C16_PcEvenButForOddTargets ==
    /\ register_pc = \h200
    /\ [][ (Aligned /\ ~OddTargetStep) => Aligned' ]_vars

\* A call to 0x204 and the return from it have run: register_pc is back at
\* the even address 0x202.
C16_Witness ==
    /\ rom = Bytes(<< \h2204, \h0000, \h00EE >>)
    /\ cycles = 2
    /\ status = "running"
    /\ register_pc = \h202

(***************************************************************************)
(* C17                                                                     *)
(***************************************************************************)
\* Bit b of a byte, the most significant bit being bit 0.
BitOf(byte, b) == (byte \div (2 ^ (7 - b))) % 2

\* The pixels C17 names for an n-row sprite at memory[i..] drawn from column
\* cx, row cy: << (cy + r) mod 32, (cx + b) mod 64 >> for every set bit b of
\* row r.
SpritePixels(m, i, cx, cy, n) ==
    { << (cy + p[1]) % 32, (cx + p[2]) % 64 >> :
        p \in { q \in (0..(n - 1)) \X (0..7) : BitOf(mem_at(m, i + q[1]), q[2]) = 1 } }

\* An instruction-clock event that executes a 0xDxyn whose n sprite rows lie
\* in memory.
DrawStep == Cycle /\ WordHi = 13 /\ register_i + WordN <= MEMORY_SIZE

\* C17: 0xDxyn with cx = v[x] mod 64 and cy = v[y] mod 32 toggles exactly the
\* pixels at row (cy + r) mod 32, column (cx + b) mod 64 for the set bits b
\* (most significant first) of memory[I + r], r in 0..n-1, and leaves every
\* other pixel unchanged.
C17_SpriteWraps ==
    [][ DrawStep =>
          LET toggled == SpritePixels(mem, register_i, registers_v[WordX] % 64,
                                      registers_v[WordY] % 32, WordN)
          IN  /\ status' = "running"
              /\ frame_buffer' = (frame_buffer \ toggled) \cup (toggled \ frame_buffer) ]_vars

\* The glyph '0' has been drawn from column 63, row 31: the row 1111 lies in
\* columns 63, 0, 1, 2 of rows 31 and 3, the row 1001 in columns 63 and 2 of
\* rows 0..2.
C17_Witness ==
    /\ rom = Bytes(<< \h603F, \h611F, \hD015 >>)
    /\ cycles = 3
    /\ frame_buffer = { << y, x >> : y \in { 31, 3 }, x \in { 63, 0, 1, 2 } }
                        \cup { << y, x >> : y \in 0..2, x \in { 63, 2 } }

(***************************************************************************)
(* C18                                                                     *)
(***************************************************************************)
\* The glyph '1' drawn twice over the glyph '0'.
DrawTwiceOverGlyph == Bytes(<< \hD005, \hA005, \hD005, \hD005 >>)

\* The glyph '0' drawn twice from column 63, row 31.
DrawTwiceWrapped == Bytes(<< \h603F, \h611F, \hD015, \hD015 >>)

\* C18: a draw executed a second time, with I, v[x], v[y] and memory as they
\* were, leaves the frame buffer as it was before the first: after every
\* draw, executing the same 0xDxyn again gives back the frame buffer the
\* draw found; and the files that draw one sprite twice in a row end with
\* the frame buffer they had before the first of the two draws.
C18_DoubleDrawCancels ==
    /\ [][ (DrawStep /\ registers_v'[WordX] = registers_v[WordX]
                     /\ registers_v'[WordY] = registers_v[WordY]) =>
              /\ status' = "running"
              /\ execute(Self', "IDXYN", Opcode_new(Word), 0).frame_buffer
                    = frame_buffer ]_vars
    /\ []((rom = Bytes(<< \hA000, \hD005, \hD005 >>) /\ cycles = 3) =>
            frame_buffer = { })
    /\ []((rom = DrawTwiceOverGlyph /\ cycles \in { 2, 4 }) =>
            frame_buffer = GlyphZeroPixels)
    /\ []((rom = DrawTwiceWrapped /\ cycles = 4) => frame_buffer = { })

\* The glyph '1' has been drawn twice over the glyph '0': the glyph '0' is
\* what is left.
C18_Witness ==
    /\ rom = DrawTwiceOverGlyph
    /\ cycles = 4
    /\ status = "running"
    /\ register_i = 5
    /\ frame_buffer = GlyphZeroPixels

(***************************************************************************)
(* C19                                                                     *)
(***************************************************************************)
\* C19: in every state from creation on, whatever was loaded and whatever
\* events followed, memory[0x000..0x04F] is the font table, and the bytes
\* below 0x200 are the ones creation put there (the font table, then
\* zeros): neither the load nor an instruction writes below 0x200.
C19_FontRegion ==
    /\ \A a \in 0..(Len(FONTS_DATA) - 1) : mem_at(mem, a) = FONTS_DATA[a + 1]
    /\ \A a \in 0..(FIRST_LOADABLE_ADDR - 1) : mem_at(mem, a) = mem_at(init_mem, a)

\* The longest image there is has been loaded and its first instruction has
\* run.
C19_Witness ==
    /\ Len(rom) = MEMORY_SIZE - FIRST_LOADABLE_ADDR
    /\ cycles = 1
    /\ Len(FONTS_DATA) = 80
    /\ mem_at(mem, \h04F) = \h80

(***************************************************************************)
(* C20                                                                     *)
(***************************************************************************)
\* C20: an image longer than 3584 bytes is rejected before anything is
\* executed, with memory, registers, register_pc, stack and frame buffer as
\* created; an image of L <= 3584 bytes is accepted and memory[0x200 + i] is
\* image[i] for every i < L, every other byte of memory and the rest of the
\* machine being as created.
C20_ImageLoading ==
    [][ /\ status = "created" =>
            /\ UNCHANGED << registers_v, register_i, delay_timer, sound_timer,
                            register_pc, frame_buffer, stack, cycles >>
            /\ IF Len(rom) > 3584
               THEN status' = "panic: rom too long" /\ mem' = mem
               ELSE /\ status' = "running"
                    /\ \A a \in 0..(MEMORY_SIZE - 1) :
                          mem_at(mem', a) =
                            IF a >= \h200 /\ a < \h200 + Len(rom)
                            THEN rom[a - \h200 + 1] ELSE mem_at(mem, a)
        /\ status # "panic: rom too long" ]_vars

\* An image of 3585 bytes, its first byte not zero, has been rejected:
\* memory is as created, nothing of the image in it.
C20_Witness ==
    /\ Len(rom) = 3585
    /\ rom[1] = \hA0
    /\ status = "panic: rom too long"
    /\ cycles = 0
    /\ mem = init_mem

(***************************************************************************)
(* C21                                                                     *)
(***************************************************************************)
\* An instruction-clock event that executes 0x8xy5 or 0x8xy7, the two
\* callers of subtract_carry.
SubtractStep == Cycle /\ WordHi = 8 /\ WordN \in { 5, 7 }

\* What C21 says subtract_carry(a, b) returns.
SubtractLaw(a, b) == IF a >= b THEN << 0, a - b >> ELSE << 1, 256 + a - b >>

\* C21: for all a, b in 0..255, subtract_carry(a, b) is (0, a - b) if a >= b
\* and (1, 256 + a - b) otherwise; and that pair is what the instructions
\* calling it leave in v[F] and (for x other than F) v[x].
C21_SubtractCarryLaw ==
    [][ SubtractStep =>
          LET a == IF WordN = 5 THEN registers_v[WordX] ELSE registers_v[WordY]
              b == IF WordN = 5 THEN registers_v[WordY] ELSE registers_v[WordX]
          IN  /\ \A c \in 0..255, d \in 0..255 :
                    subtract_carry(c, d) = SubtractLaw(c, d)
              /\ registers_v'[15] = SubtractLaw(a, b)[1]
              /\ WordX # 15 => registers_v'[WordX] = SubtractLaw(a, b)[2] ]_vars

\* 0x8015 has run with v[0] = 10 and v[1] = 20, the subtract_carry(10, 20)
\* of the unit test: (1, 246).
C21_Witness ==
    /\ rom = Bytes(<< \h600A, \h6114, \h8015 >>)
    /\ cycles = 3
    /\ registers_v[15] = 1
    /\ registers_v[0] = 246

(***************************************************************************)
(* C22                                                                     *)
(***************************************************************************)
\* An instruction-clock event that calls exec, and so fetch.
ExecStep == CpuEvent /\ cycles' = cycles + 1

\* C22: every memory read uses an address in 0x000..0xFFF: a fetch is
\* performed only with register_pc and register_pc + 1 both at most 0xFFF, a
\* draw 0xDxyn only with register_i + r at most 0xFFF for every r < n, and no
\* event ends the run on an index past the end of memory.
C22_MemoryReadsInRange ==
    [][ /\ ExecStep => (register_pc <= \hFFF /\ register_pc + 1 <= \hFFF)
        /\ (Cycle /\ WordHi = 13) =>
              \A r \in 0..(WordN - 1) : register_i + r <= \hFFF
        /\ status' # "panic: index out of bounds" ]_vars

(***************************************************************************)
(* C23                                                                     *)
(***************************************************************************)
\* C23: in a run started from a freshly created machine no event writes
\* delay_timer or sound_timer, both are 0 in every reachable state whatever
\* the program, and so every instruction-clock event before the run ends
\* performs one fetch-decode-execute cycle.
C23_TimersStayZero ==
    /\ [](delay_timer = 0 /\ sound_timer = 0)
    /\ [][ /\ UNCHANGED << delay_timer, sound_timer >>
           /\ CpuEvent => (status = "running" /\ ExecStep) ]_vars

\* The loop 0x1200 has run three instructions and a timer event has
\* followed them: the timers are still 0 and the run goes on.
C23_Witness ==
    /\ rom = Bytes(<< \h1200 >>)
    /\ cycles = 3
    /\ event = "timer"
    /\ status = "running"
    /\ delay_timer = 0
    /\ sound_timer = 0

====
